---- MODULE Spec2Model ----
(***************************************************************************)
(* Model of data/data.py: the batch transform that joins domains.csv,     *)
(* inspect.csv, tls.csv and analytics.csv into a registry, classifies     *)
(* every domain (https_row_for, analytics_row_for), rolls the scores up   *)
(* per agency (process_domains) and reduces them to two active/inactive   *)
(* tables (process_stats).                                                 *)
(*                                                                         *)
(* Python values are modelled as follows.                                  *)
(*   - A dict with string keys is a function with a string domain.         *)
(*   - None is the record None; an optional scalar v is Some(v).           *)
(*   - A CSV cell that the code parses with int() is a sequence of         *)
(*     one-character strings, so that parsing is computed.                 *)
(*   - A float is [m, e]: a 53-bit mantissa (most significant bit first)   *)
(*     and a binary exponent, value m * 2^e; Zero is the float 0.0.        *)
(*   - A raised exception is the record Raise(name).                       *)
(***************************************************************************)
EXTENDS Integers, Sequences, FiniteSets, TLC

None == [none |-> TRUE]
Some(v) == [some |-> v]
Ok(v) == [ok |-> v]
Raise(name) == [raise |-> name]
IsRaise(v) == "raise" \in DOMAIN v

Range(s) == {s[i] : i \in DOMAIN s}

(***************************************************************************)
(* IEEE-754 double arithmetic, as far as percent() needs it.               *)
(***************************************************************************)
MantissaBits == 53

Zero == [m |-> <<>>, e |-> 0]

\* The w low bits of n, most significant first.
FixedBits(n, w) == [i \in 1..w |-> (n \div 2^(w - i)) % 2]

BitLen(n) ==
  IF n = 0 THEN 0
  ELSE CHOOSE w \in 1..30 : 2^(w - 1) <= n /\ n < 2^w

NatToBits(n) == FixedBits(n, BitLen(n))

\* The value of at most 30 bits.
RECURSIVE BitsToNat(_)
BitsToNat(bits) ==
  IF bits = <<>> THEN 0
  ELSE IF Len(bits) = 1 THEN bits[1]
  ELSE LET h  == Len(bits) \div 2
           lo == SubSeq(bits, h + 1, Len(bits))
       IN  BitsToNat(SubSeq(bits, 1, h)) * 2^Len(lo) + BitsToNat(lo)

\* bits + 1; one bit longer when every bit was 1.
IncBits(bits) ==
  LET zeros == {i \in DOMAIN bits : bits[i] = 0}
  IN  IF zeros = {} THEN <<1>> \o [i \in DOMAIN bits |-> 0]
      ELSE LET p == CHOOSE i \in zeros : \A j \in zeros : j <= i
           IN  [i \in DOMAIN bits |->
                  IF i < p THEN bits[i] ELSE IF i = p THEN 1 ELSE 0]

\* bits * c for a 53-bit mantissa and a small c, on three limbs of
\* LimbBits bits each (the top one shorter), with carries.
MulBits(bits, c) ==
  LET LimbBits == 18
      n  == Len(bits)
      B  == 2^LimbBits
      Limbs(l0, l1, l2) ==
        NatToBits(l2 + l1 \div B) \o FixedBits(l1 % B, LimbBits)
                                  \o FixedBits(l0 % B, LimbBits)
      Carry(l0, l1, l2) == Limbs(l0, l1 + l0 \div B, l2)
  IN  Carry(BitsToNat(SubSeq(bits, n - LimbBits + 1, n)) * c,
            BitsToNat(SubSeq(bits, n - 2 * LimbBits + 1, n - LimbBits)) * c,
            BitsToNat(SubSeq(bits, 1, n - 2 * LimbBits)) * c)

\* The quotient bits of r / d (r < d < 2^13) after the binary point, 54 of
\* them in three steps of 18, put after acc, and the remainder left.
LongDiv(r, d, acc) ==
  LET LimbBits == 18
      B == 2^LimbBits
      Third(q1, q2, r2) ==
        [bits |-> acc \o FixedBits(q1, LimbBits) \o FixedBits(q2, LimbBits)
                      \o FixedBits((r2 * B) \div d, LimbBits),
         rem  |-> (r2 * B) % d]
      Second(q1, r1) == Third(q1, (r1 * B) \div d, (r1 * B) % d)
  IN  Second((r * B) \div d, (r * B) % d)

\* The number of zero bits after the binary point of r / d (0 < r < d).
LeadingZeros(r, d) ==
  CHOOSE k \in 0..13 : 2^k * 2 * r >= d /\ 2^k * r < d

\* Round-to-nearest, ties-to-even, of the integer bits (leading bit 1,
\* at least 53 bits) times 2^e, plus a nonzero tail when sticky.
RoundTo53(bits, e, sticky) ==
  LET L    == Len(bits) - MantissaBits
      kept == SubSeq(bits, 1, MantissaBits)
      tail == sticky \/ \E i \in (MantissaBits + 2)..Len(bits) : bits[i] = 1
      up   == L > 0 /\ bits[MantissaBits + 1] = 1
                    /\ (tail \/ kept[MantissaBits] = 1)
      Pack(m) == IF Len(m) > MantissaBits
                 THEN [m |-> SubSeq(m, 1, MantissaBits), e |-> e + L + 1]
                 ELSE [m |-> m, e |-> e + L]
  IN  Pack(IF up THEN IncBits(kept) ELSE kept)

\* num / denom on two non-negative ints, denom # 0: the nearest double.
FloatDiv(num, denom) ==
  LET Round(ld, e) == RoundTo53(ld.bits, e, ld.rem # 0)
      Fraction(k) ==
        Round(LongDiv(2^k * num, denom, <<>>), -(k + MantissaBits + 1))
  IN  IF num = 0 THEN Zero
      ELSE IF num >= denom
      THEN Round(LongDiv(num % denom, denom, NatToBits(num \div denom)),
                 -(MantissaBits + 1))
      ELSE Fraction(LeadingZeros(num, denom))

\* f * c for a small positive int c: the nearest double.
FloatMul(f, c) ==
  IF f = Zero THEN Zero
  ELSE RoundTo53(MulBits(f.m, c), f.e, FALSE)

\* round(f) with ties away from zero.
PyRound_half_up(f) ==
  LET Nearest(s, ip) ==
        IF f.m[MantissaBits - s + 1] = 1 THEN ip + 1 ELSE ip
  IN  IF f = Zero THEN 0
      ELSE IF f.e >= 0 THEN BitsToNat(f.m)
      ELSE IF -f.e > MantissaBits THEN 0
      ELSE Nearest(-f.e, BitsToNat(SubSeq(f.m, 1, MantissaBits + f.e)))

\* round(f) of a non-negative double below 2^52: the nearest int, ties to even.
PyRound(f) ==
  LET Nearest(s, ip) ==
        IF /\ f.m[MantissaBits - s + 1] = 1
           /\ \/ ip % 2 = 1
              \/ \E i \in (MantissaBits - s + 2)..MantissaBits : f.m[i] = 1
        THEN ip + 1 ELSE ip
  IN  IF f = Zero THEN 0
      ELSE IF f.e >= 0 THEN BitsToNat(f.m)
      ELSE IF -f.e > MantissaBits THEN 0
      ELSE Nearest(-f.e, BitsToNat(SubSeq(f.m, 1, MantissaBits + f.e)))

\* Ok(the int returned), or the exception of a division by zero.
percent(num, denom) ==
  IF denom = 0 THEN Raise("ZeroDivisionError")
  ELSE Ok(PyRound(FloatMul(FloatDiv(num, denom), 100)))

(***************************************************************************)
(* Strings: str.lower(), the order list.sort() uses, truthiness, int().    *)
(***************************************************************************)

\* str.lower() on the hostnames of the input files.
lower(s) ==
  CASE s = "A.GOV"       -> "a.gov"
    [] s = "B.GOV"       -> "b.gov"
    [] s = "Domain Name" -> "domain name"
    [] OTHER             -> s

\* s.startswith("domain"), on the first cells of domains.csv.
startswith_domain(s) == s \in {"domain", "domain name"}

\* The strings the registry sorts, in ascending code-point order.
CodePointOrder ==
  << "Department of Energy", "Library of Congress", "Non-Federal Agency",
     "The Judicial Branch (Courts)", "a.gov", "b.gov" >>

StrLess(a, b) ==
  \E i, j \in DOMAIN CodePointOrder :
     CodePointOrder[i] = a /\ CodePointOrder[j] = b /\ i < j

\* list.sort()
sort(s) == SortSeq(s, StrLess)

DigitValue ==
  "0" :> 0 @@ "1" :> 1 @@ "2" :> 2 @@ "3" :> 3 @@ "4" :> 4 @@
  "5" :> 5 @@ "6" :> 6 @@ "7" :> 7 @@ "8" :> 8 @@ "9" :> 9

\* str(n) of a non-negative int, as a sequence of characters.
RECURSIVE DecimalOf(_)
DecimalOf(n) ==
  LET d == CHOOSE c \in DOMAIN DigitValue : DigitValue[c] = n % 10
  IN  IF n < 10 THEN <<d>> ELSE Append(DecimalOf(n \div 10), d)

RECURSIVE DigitsToNat(_)
DigitsToNat(chars) ==
  IF chars = <<>> THEN 0
  ELSE 10 * DigitsToNat(SubSeq(chars, 1, Len(chars) - 1))
         + DigitValue[chars[Len(chars)]]

\* int(chars): an optional sign and decimal digits, or ValueError.
int(chars) ==
  LET signed == chars # <<>> /\ chars[1] \in {"-", "+"}
      digits == IF signed THEN Tail(chars) ELSE chars
  IN  IF digits = <<>> \/ \E i \in DOMAIN digits : digits[i] \notin DOMAIN DigitValue
      THEN Raise("ValueError")
      ELSE IF signed /\ chars[1] = "-" THEN Ok(-DigitsToNat(digits))
      ELSE Ok(DigitsToNat(digits))

\* dict.get(key)
Get(d, key) == IF key \in DOMAIN d THEN d[key] ELSE None

\* d[key] = value
Put(d, key, value) == (key :> value) @@ d

\* Truth value of a dict or None.
Truthy(d) == d # None /\ DOMAIN d # {}

LABELS ==
  [ https          |-> "Uses HTTPS",
    https_forced   |-> "Enforces HTTPS",
    hsts           |-> "Strict Transport Security (HSTS)",
    hsts_age       |-> "HSTS max-age",
    grade          |-> "SSL Labs Grade",
    grade_agencies |-> "SSL Labs (A- or higher)",
    dap            |-> "Participates in DAP?",
    fs             |-> "Forward Secrecy",
    rc4            |-> "RC4",
    sig            |-> "Signature Algorithm",
    ssl3           |-> "SSLv3",
    tls12          |-> "TLSv1.2" ]

branch_for(agency) ==
  IF agency \in { "Library of Congress", "The Legislative Branch (Congress)",
                  "Government Printing Office",
                  "Congressional Office of Compliance" }
  THEN "legislative"
  ELSE IF agency \in {"The Judicial Branch (Courts)"} THEN "judicial"
  ELSE IF agency \in {"Non-Federal Agency"} THEN "non-federal"
  ELSE "executive"

boolean_for(string) == IF string = "False" THEN FALSE ELSE TRUE

boolean_nice(value) ==
  IF value = "True" THEN 1 ELSE IF value = "False" THEN 0 ELSE -1

\* The 18 week max-age the ladder compares with.
PreloadMinAge == 10886400

GradeScore ==
  "F" :> 0 @@ "T" :> 1 @@ "C" :> 2 @@ "B" :> 3 @@ "A-" :> 4 @@
  "A" :> 5 @@ "A+" :> 6

(***************************************************************************)
(* State: the module-level globals of data.py, the position of run(), the  *)
(* exception that ended it, and what save_tables/save_stats wrote.         *)
(***************************************************************************)
VARIABLES
  pc,                 \* the step of run() that comes next
  failure,            \* None, or [where, exc]: the uncaught exception
  domain_data,        \* domain -> dict
  agency_data,        \* agency -> list of domains
  domains,            \* uniquely seen domains
  agencies,           \* uniquely seen agencies
  https_domains,      \* table rows
  analytics_domains,
  https_agencies,
  analytics_agencies,
  https_stats,        \* rows of https.csv
  analytics_stats,    \* rows of analytics.csv
  nread,              \* rows of domains.csv read so far in this run
  files,              \* the four input files, when they are fixed up front
  pos,                \* rows of the current fixed file read so far
  written,            \* what each completed run wrote to disk
  call,               \* a call of percent: None, or [num, denom]
  ret                 \* its result, None before it returns

vars ==
  << pc, failure, domain_data, agency_data, domains, agencies,
     https_domains, analytics_domains, https_agencies, analytics_agencies,
     https_stats, analytics_stats, nread, files, pos, written, call, ret >>

registry == << domain_data, agency_data, domains, agencies >>
tables == << https_domains, analytics_domains, https_agencies, analytics_agencies >>
stats == << https_stats, analytics_stats >>
harness == << files, pos, call, ret >>

EmptyDict == [k \in {} |-> None]

(***************************************************************************)
(* Classifier                                                              *)
(***************************************************************************)
evaluating_for_https(domain) ==
  /\ Get(domain_data[domain], "inspect") # None
  /\ domain_data[domain]["inspect"]["Live"] = "True"

evaluating_for_analytics(domain) ==
  /\ Get(domain_data[domain], "inspect") # None
  /\ Get(domain_data[domain], "analytics") # None
  /\ domain_data[domain]["inspect"]["Live"] = "True"
  /\ domain_data[domain]["inspect"]["Redirect"] = "False"
  /\ domain_data[domain]["branch"] = "executive"

\* Is it there? There for most clients? Not there?
https_presence(inspect) ==
  IF inspect["Downgrades HTTPS"] = "True" THEN 0
  ELSE IF inspect["Valid HTTPS"] = "True" THEN 2
  ELSE IF inspect["HTTPS Bad Chain"] = "True" THEN 1
  ELSE -1

\* The enforcement score without its N/A case.
https_behavior_unguarded(inspect, https) ==
  IF /\ inspect["Strictly Forces HTTPS"] = "True"
     /\ \/ inspect["Defaults to HTTPS"] = "True"
        \/ inspect["Redirect"] = "True"
  THEN 3
  ELSE IF /\ inspect["Strictly Forces HTTPS"] = "False"
          /\ inspect["Defaults to HTTPS"] = "True"
       THEN 2
  ELSE 1

\* Is HTTPS enforced?
https_behavior(inspect, https) ==
  IF https <= 0 THEN 0
  ELSE IF /\ inspect["Strictly Forces HTTPS"] = "True"
          /\ \/ inspect["Defaults to HTTPS"] = "True"
             \/ inspect["Redirect"] = "True"
       THEN 3
  ELSE IF /\ inspect["Strictly Forces HTTPS"] = "False"
          /\ inspect["Defaults to HTTPS"] = "True"
       THEN 2
  ELSE 1

\* hsts_age: Ok(Some(n)), Ok(None), or the ValueError of int().
hsts_age_for(inspect) ==
  LET Parsed(n) == IF IsRaise(n) THEN n ELSE Ok(Some(n.ok))
  IN  IF inspect["HSTS Max Age"] # <<>>
      THEN Parsed(int(inspect["HSTS Max Age"]))
      ELSE Ok(None)

\* The ladder with the max-age rule ahead of the preload rule.
hsts_for_age_first(inspect, https, hsts_age) ==
  IF https <= 0 THEN Ok(-1)
  ELSE IF inspect["HSTS"] = "False" THEN Ok(0)
  ELSE IF hsts_age = None THEN Raise("TypeError")
  ELSE IF hsts_age.some < PreloadMinAge THEN Ok(0)
  ELSE IF inspect["HSTS Preload Ready"] = "True" THEN Ok(3)
  ELSE IF inspect["HSTS All Subdomains"] = "True" THEN Ok(2)
  ELSE Ok(1)

\* The HSTS ladder: Ok(score), or the TypeError of None < int.
hsts_for(inspect, https, hsts_age) ==
  IF https <= 0 THEN Ok(-1)
  ELSE IF inspect["HSTS"] = "False" THEN Ok(0)
  ELSE IF inspect["HSTS Preload Ready"] = "True" THEN Ok(3)
  ELSE IF hsts_age = None THEN Raise("TypeError")
  ELSE IF hsts_age.some < PreloadMinAge THEN Ok(0)
  ELSE IF inspect["HSTS All Subdomains"] = "True" THEN Ok(2)
  ELSE Ok(1)

\* The grade lookup with N/A as the default of an unknown letter.
grade_for_lenient(tls, https) ==
  LET na == (LABELS.grade :> -1) @@ (LABELS.fs :> None) @@ (LABELS.sig :> None)
            @@ (LABELS.rc4 :> None) @@ (LABELS.ssl3 :> None)
            @@ (LABELS.tls12 :> None)
      Graded(grade, fs) ==
        IF IsRaise(fs) THEN fs
        ELSE Ok((LABELS.grade :> grade)
                @@ (LABELS.fs :> Some(fs.ok))
                @@ (LABELS.sig :> Some(tls["Signature Algorithm"]))
                @@ (LABELS.rc4 :> Some(boolean_for(tls["RC4"])))
                @@ (LABELS.ssl3 :> Some(boolean_for(tls["SSLv3"])))
                @@ (LABELS.tls12 :> Some(boolean_for(tls["TLSv1.2"]))))
  IN  IF https <= 0 THEN Ok(na)
      ELSE IF tls = None THEN Ok(na)
      ELSE Graded(IF tls["Grade"] \in DOMAIN GradeScore
                  THEN GradeScore[tls["Grade"]] ELSE -1,
                  int(tls["Forward Secrecy"]))

\* The grade and the raw TLS attributes: Ok(dict), or the KeyError of the
\* grade lookup, or the ValueError of int().
grade_for(tls, https) ==
  LET na == (LABELS.grade :> -1) @@ (LABELS.fs :> None) @@ (LABELS.sig :> None)
            @@ (LABELS.rc4 :> None) @@ (LABELS.ssl3 :> None)
            @@ (LABELS.tls12 :> None)
      Graded(grade, fs) ==
        IF IsRaise(fs) THEN fs
        ELSE Ok((LABELS.grade :> grade)
                @@ (LABELS.fs :> Some(fs.ok))
                @@ (LABELS.sig :> Some(tls["Signature Algorithm"]))
                @@ (LABELS.rc4 :> Some(boolean_for(tls["RC4"])))
                @@ (LABELS.ssl3 :> Some(boolean_for(tls["SSLv3"])))
                @@ (LABELS.tls12 :> Some(boolean_for(tls["TLSv1.2"]))))
  IN  IF https <= 0 THEN Ok(na)
      ELSE IF tls = None THEN Ok(na)
      ELSE IF tls["Grade"] \notin DOMAIN GradeScore THEN Raise("KeyError")
      ELSE Graded(GradeScore[tls["Grade"]], int(tls["Forward Secrecy"]))

\* Ok(row), or the first exception the body raises.
https_row_for(domain) ==
  LET Row(inspect, https, behavior, hsts_age, hsts, tls) ==
        IF IsRaise(tls) THEN tls
        ELSE Ok(("Domain" :> domain)
                @@ ("Canonical" :> inspect["Canonical"])
                @@ ("Agency" :> domain_data[domain]["agency"])
                @@ (LABELS.https :> https)
                @@ (LABELS.https_forced :> behavior)
                @@ (LABELS.hsts :> hsts.ok)
                @@ (LABELS.hsts_age :> hsts_age.ok)
                @@ tls.ok)
      Grade(inspect, https, behavior, hsts_age, hsts) ==
        IF IsRaise(hsts) THEN hsts
        ELSE Row(inspect, https, behavior, hsts_age, hsts,
                 grade_for(Get(domain_data[domain], "tls"), https))
      Hsts(inspect, https, hsts_age) ==
        IF IsRaise(hsts_age) THEN hsts_age
        ELSE Grade(inspect, https, https_behavior(inspect, https), hsts_age,
                   hsts_for(inspect, https, hsts_age.ok))
      Presence(inspect) ==
        Hsts(inspect, https_presence(inspect), hsts_age_for(inspect))
  IN  IF "inspect" \notin DOMAIN domain_data[domain] THEN Raise("KeyError")
      ELSE Presence(domain_data[domain]["inspect"])

analytics_row_for(domain) ==
  LET analytics == domain_data[domain]["analytics"]
      inspect   == domain_data[domain]["inspect"]
  IN  ("Domain" :> domain)
      @@ ("Canonical" :> inspect["Canonical"])
      @@ ("Agency" :> domain_data[domain]["agency"])
      @@ (LABELS.dap :> boolean_nice(analytics["Participates in Analytics"]))

(***************************************************************************)
(* Aggregator: process_domains                                             *)
(***************************************************************************)

\* First pass: the rows appended until the loop ends or a row raises.
RECURSIVE domain_pass(_, _, _)
domain_pass(i, hd, ad) ==
  LET Step(domain, row) ==
        IF IsRaise(row)
        THEN [https_domains |-> hd, analytics_domains |-> ad, exc |-> row]
        ELSE domain_pass(
               i + 1,
               IF row = None THEN hd ELSE Append(hd, row.ok),
               IF evaluating_for_analytics(domain)
               THEN Append(ad, analytics_row_for(domain)) ELSE ad)
  IN  IF i > Len(domains)
      THEN [https_domains |-> hd, analytics_domains |-> ad, exc |-> None]
      ELSE Step(domains[i],
                IF evaluating_for_https(domains[i])
                THEN https_row_for(domains[i]) ELSE None)

\* How many rows of a list reach the score `least` in column `label`.
reaching(rows, label, least) ==
  Cardinality({i \in DOMAIN rows : rows[i][label] >= least})

\* A tally that counts every entry of the list in the total.
https_tally_all_entries(agency_domains) ==
  LET Count(rows) ==
        Ok([ total        |-> Len(agency_domains),
             https        |-> reaching(rows, LABELS.https, 1),
             https_forced |-> reaching(rows, LABELS.https_forced, 2),
             hsts         |-> reaching(rows, LABELS.hsts, 1),
             grade        |-> reaching(rows, LABELS.grade, 4) ])
      First(results, raised) ==
        IF raised # {}
        THEN results[CHOOSE i \in raised : \A j \in raised : i <= j]
        ELSE Count([i \in DOMAIN results |-> results[i].ok])
      Rows(results) ==
        First(results, {i \in DOMAIN results : IsRaise(results[i])})
      Entries(entries) ==
        Rows([i \in DOMAIN entries |-> https_row_for(entries[i])])
  IN  Entries(SelectSeq(agency_domains, evaluating_for_https))

\* https_total and https_stats over one agency's domain list: Ok(counters),
\* or the first exception https_row_for raises.
https_tally(agency_domains) ==
  LET Count(rows) ==
        Ok([ total        |-> Len(rows),
             https        |-> reaching(rows, LABELS.https, 1),
             https_forced |-> reaching(rows, LABELS.https_forced, 2),
             hsts         |-> reaching(rows, LABELS.hsts, 1),
             grade        |-> reaching(rows, LABELS.grade, 4) ])
      First(results, raised) ==
        IF raised # {}
        THEN results[CHOOSE i \in raised : \A j \in raised : i <= j]
        ELSE Count([i \in DOMAIN results |-> results[i].ok])
      Rows(results) ==
        First(results, {i \in DOMAIN results : IsRaise(results[i])})
      Entries(entries) ==
        Rows([i \in DOMAIN entries |-> https_row_for(entries[i])])
  IN  Entries(SelectSeq(agency_domains, evaluating_for_https))

\* analytics_total and analytics_stats over one agency's domain list.
analytics_tally(agency_domains) ==
  LET Count(rows) ==
        [ total |-> Len(rows), dap |-> reaching(rows, LABELS.dap, 1) ]
      Entries(entries) ==
        Count([i \in DOMAIN entries |-> analytics_row_for(entries[i])])
  IN  Entries(SelectSeq(agency_domains, evaluating_for_analytics))

\* A guard that lets every agency through.
emits_always(total) == TRUE

\* The guard of each append to a rollup.
emits(total) == total > 0

\* Ok(the row appended to https_agencies), or the exception of percent.
https_agency_row(agency, tally) ==
  LET Row(https, https_forced, hsts, grade) ==
        IF IsRaise(https) THEN https
        ELSE Ok(("Agency" :> agency)
                @@ ("Number of Domains" :> tally.total)
                @@ (LABELS.https :> https.ok)
                @@ (LABELS.https_forced :> https_forced.ok)
                @@ (LABELS.hsts :> hsts.ok)
                @@ (LABELS.grade_agencies :> grade.ok))
  IN  Row(percent(tally.https, tally.total),
          percent(tally.https_forced, tally.total),
          percent(tally.hsts, tally.total),
          percent(tally.grade, tally.total))

\* Ok(the row appended to analytics_agencies), or the exception of percent.
analytics_agency_row(agency, tally) ==
  LET Row(dap) ==
        IF IsRaise(dap) THEN dap
        ELSE Ok(("Agency" :> agency)
                @@ ("Number of Domains" :> tally.total)
                @@ (LABELS.dap :> dap.ok))
  IN  Row(percent(tally.dap, tally.total))

\* Second pass: the rollup rows appended until the loop ends or raises.
RECURSIVE agency_pass(_, _, _)
agency_pass(i, ha, aa) ==
  LET Analytics(ha2, ar) ==
        IF IsRaise(ar)
        THEN [https_agencies |-> ha2, analytics_agencies |-> aa, exc |-> ar]
        ELSE agency_pass(i + 1, ha2,
                         IF ar = None THEN aa ELSE Append(aa, ar.ok))
      Https(agency, hr, at) ==
        IF IsRaise(hr)
        THEN [https_agencies |-> ha, analytics_agencies |-> aa, exc |-> hr]
        ELSE Analytics(IF hr = None THEN ha ELSE Append(ha, hr.ok),
                       IF emits(at.total)
                       THEN analytics_agency_row(agency, at) ELSE None)
      Tally(agency, ht) ==
        IF IsRaise(ht)
        THEN [https_agencies |-> ha, analytics_agencies |-> aa, exc |-> ht]
        ELSE Https(agency,
                   IF emits(ht.ok.total)
                   THEN https_agency_row(agency, ht.ok) ELSE None,
                   analytics_tally(agency_data[agency]))
  IN  IF i > Len(agencies)
      THEN [https_agencies |-> ha, analytics_agencies |-> aa, exc |-> None]
      ELSE Tally(agencies[i], https_tally(agency_data[agencies[i]]))

process_domains ==
  LET Commit(p1, p2) ==
        /\ https_domains' = p1.https_domains
        /\ analytics_domains' = p1.analytics_domains
        /\ https_agencies' = p2.https_agencies
        /\ analytics_agencies' = p2.analytics_agencies
        /\ failure' = IF p2.exc = None THEN None
                      ELSE [where |-> "process_domains", exc |-> p2.exc.raise]
        /\ pc' = IF p2.exc = None THEN "process_stats" ELSE "failed"
      Second(p1) ==
        Commit(p1, IF p1.exc = None
                   THEN agency_pass(1, https_agencies, analytics_agencies)
                   ELSE [https_agencies |-> https_agencies,
                         analytics_agencies |-> analytics_agencies,
                         exc |-> p1.exc])
  IN  /\ pc = "process_domains"
      /\ Second(domain_pass(1, https_domains, analytics_domains))
      /\ UNCHANGED << registry, stats, nread, written, harness >>

(***************************************************************************)
(* Summarizer: process_stats                                               *)
(***************************************************************************)
stats_table(pct) ==
  << <<"status", "value">>, <<"active", pct>>, <<"inactive", 100 - pct>> >>

process_stats ==
  LET Commit(https_pct, analytics_pct) ==
        /\ https_stats' = IF IsRaise(https_pct) THEN https_stats
                          ELSE stats_table(https_pct.ok)
        /\ analytics_stats' =
             IF IsRaise(https_pct) \/ IsRaise(analytics_pct)
             THEN analytics_stats ELSE stats_table(analytics_pct.ok)
        /\ failure' =
             IF IsRaise(https_pct)
             THEN [where |-> "process_stats", exc |-> https_pct.raise]
             ELSE IF IsRaise(analytics_pct)
             THEN [where |-> "process_stats", exc |-> analytics_pct.raise]
             ELSE None
        /\ pc' = IF IsRaise(https_pct) \/ IsRaise(analytics_pct)
                 THEN "failed" ELSE "save"
  IN  /\ pc = "process_stats"
      /\ Commit(percent(Cardinality({i \in DOMAIN https_domains :
                          /\ https_domains[i][LABELS.https] >= 1
                          /\ https_domains[i][LABELS.https_forced] >= 1}),
                        Len(https_domains)),
                percent(reaching(analytics_domains, LABELS.dap, 1),
                        Len(analytics_domains)))
      /\ UNCHANGED << registry, tables, nread, written, harness >>

\* save_tables and save_stats: the six outputs go to disk.
save ==
  /\ pc = "save"
  /\ written' = Append(written,
                  [ https_domains      |-> https_domains,
                    https_agencies     |-> https_agencies,
                    analytics_domains  |-> analytics_domains,
                    analytics_agencies |-> analytics_agencies,
                    https_stats        |-> https_stats,
                    analytics_stats    |-> analytics_stats ])
  /\ pc' = "done"
  /\ UNCHANGED << failure, registry, tables, stats, nread, harness >>

(***************************************************************************)
(* load_data.  Each CSV file starts with its header row; the data rows of  *)
(* inspect.csv, tls.csv and analytics.csv are the dicts built from it.     *)
(***************************************************************************)

\* One row of domains.csv.
load_domain_row(row) ==
  LET domain      == lower(row[1])
      domain_type == row[2]
      agency      == row[3]
      branch      == branch_for(agency)
      seen        == IF agency \in Range(agencies) THEN agency_data
                     ELSE Put(agency_data, agency, <<>>)
  IN  IF \/ startswith_domain(lower(row[1]))
         \/ domain_type # "Federal Agency"
         \/ branch = "non-federal"
      THEN UNCHANGED registry
      ELSE /\ domains' = IF domain \in Range(domains) THEN domains
                         ELSE Append(domains, domain)
           /\ agencies' = IF agency \in Range(agencies) THEN agencies
                          ELSE Append(agencies, agency)
           /\ agency_data' = Put(seen, agency, Append(seen[agency], domain))
           /\ domain_data' = Put(domain_data, domain,
                                 [branch |-> branch, agency |-> agency])

\* The end of domains.csv: both lists are sorted.
sort_seen ==
  /\ domains' = sort(domains)
  /\ agencies' = sort(agencies)
  /\ UNCHANGED << domain_data, agency_data >>

\* One row of inspect.csv.
load_inspect_row(dict_row) ==
  LET domain == lower(dict_row["Domain"])
  IN  IF ~Truthy(Get(domain_data, domain))
      THEN UNCHANGED registry
      ELSE /\ domain_data' = Put(domain_data, domain,
                                 Put(domain_data[domain], "inspect", dict_row))
           /\ UNCHANGED << agency_data, domains, agencies >>

\* One row of tls.csv.
load_tls_row(dict_row) ==
  LET domain == lower(dict_row["Domain"])
  IN  IF ~Truthy(Get(domain_data, domain))
      THEN UNCHANGED registry
      ELSE /\ domain_data' = Put(domain_data, domain,
                                 Put(domain_data[domain], "tls", dict_row))
           /\ UNCHANGED << agency_data, domains, agencies >>

\* One row of analytics.csv, attached without looking for inspect.
load_analytics_row_unanchored(dict_row) ==
  LET domain == lower(dict_row["Domain"])
  IN  IF ~Truthy(Get(domain_data, domain))
      THEN UNCHANGED registry
      ELSE /\ domain_data' = Put(domain_data, domain,
                                 Put(domain_data[domain], "analytics", dict_row))
           /\ UNCHANGED << agency_data, domains, agencies >>

\* One row of analytics.csv.
load_analytics_row(dict_row) ==
  LET domain == lower(dict_row["Domain"])
  IN  IF ~Truthy(Get(domain_data, domain))
      THEN UNCHANGED registry
      ELSE IF ~Truthy(Get(domain_data[domain], "inspect"))
      THEN UNCHANGED registry
      ELSE /\ domain_data' = Put(domain_data, domain,
                                 Put(domain_data[domain], "analytics", dict_row))
           /\ UNCHANGED << agency_data, domains, agencies >>

(***************************************************************************)
(* Inputs                                                                  *)
(***************************************************************************)
BoolStr == {"True", "False"}

InspectRow(domain, live, redirect, downgrades, valid, bad_chain, strictly, defaults, hsts, preload, all_subdomains, max_age) ==
  ("Domain" :> domain) @@ ("Canonical" :> "http://www.example.gov")
  @@ ("Live" :> live) @@ ("Redirect" :> redirect)
  @@ ("Downgrades HTTPS" :> downgrades) @@ ("Valid HTTPS" :> valid)
  @@ ("HTTPS Bad Chain" :> bad_chain)
  @@ ("Strictly Forces HTTPS" :> strictly) @@ ("Defaults to HTTPS" :> defaults)
  @@ ("HSTS" :> hsts) @@ ("HSTS Preload Ready" :> preload)
  @@ ("HSTS All Subdomains" :> all_subdomains) @@ ("HSTS Max Age" :> max_age)

TlsRow(domain, grade) ==
  ("Domain" :> domain) @@ ("Grade" :> grade)
  @@ ("Forward Secrecy" :> <<"2">>)
  @@ ("Signature Algorithm" :> "SHA256withRSA")
  @@ ("RC4" :> "False") @@ ("SSLv3" :> "False") @@ ("TLSv1.2" :> "True")

AnalyticsRow(domain, participates) ==
  ("Domain" :> domain) @@ ("Participates in Analytics" :> participates)

Hostnames == {"A.GOV", "b.gov"}
Agencies == {"Department of Energy", "Library of Congress", "Non-Federal Agency"}

DomainRows ==
  {<<"Domain Name", "Domain Type", "Agency">>}
  \cup {<<d, ty, a>> : d \in Hostnames, ty \in {"Federal Agency", "City"},
                        a \in Agencies}

\* HSTS Max Age cells: empty, around the 18 week line, not a number.
MaxAges ==
  { <<>>, DecimalOf(10000000), DecimalOf(PreloadMinAge - 1),
    DecimalOf(PreloadMinAge), <<"a", "b", "c">> }

\* Every inspect row of a host.
AllInspectRows(hosts) ==
  { InspectRow(d, live, redirect, downgrades, valid, bad_chain, strictly,
               defaults, hsts, preload, all_subdomains, max_age) :
      d \in hosts, live \in BoolStr, redirect \in BoolStr,
      downgrades \in BoolStr, valid \in BoolStr, bad_chain \in BoolStr,
      strictly \in BoolStr, defaults \in BoolStr, hsts \in BoolStr,
      preload \in BoolStr, all_subdomains \in BoolStr, max_age \in MaxAges }

\* The inspect rows of the whole-pipeline specifications: a sound site, a
\* dead one, a redirector with a bad chain and no HSTS, and a site whose
\* HSTS header carries no max-age.
InspectRows ==
  UNION {{
    InspectRow(d, "True", "False", "False", "True", "False", "True", "True",
               "True", "True", "True", DecimalOf(31536000)),
    InspectRow(d, "False", "False", "False", "False", "False", "False", "False",
               "False", "False", "False", <<>>),
    InspectRow(d, "True", "True", "False", "False", "True", "False", "True",
               "False", "False", "False", <<>>),
    InspectRow(d, "True", "False", "False", "True", "False", "False", "True",
               "True", "False", "False", <<>>) } : d \in Hostnames}

Grades == DOMAIN GradeScore \cup {"Z"}

TlsRows == {TlsRow(d, g) : d \in Hostnames, g \in {"A-", "Z"}}

AnalyticsRows == {AnalyticsRow(d, v) : d \in Hostnames, v \in BoolStr}

(***************************************************************************)
(* Spec: one run of run() over files read row by row.                      *)
(***************************************************************************)
MaxDomainRows == 2

Init ==
  /\ pc = "domains.csv"
  /\ failure = None
  /\ domain_data = EmptyDict
  /\ agency_data = EmptyDict
  /\ domains = <<>>
  /\ agencies = <<>>
  /\ https_domains = <<>>
  /\ analytics_domains = <<>>
  /\ https_agencies = <<>>
  /\ analytics_agencies = <<>>
  /\ https_stats = <<>>
  /\ analytics_stats = <<>>
  /\ nread = 0
  /\ files = None
  /\ pos = 0
  /\ written = <<>>
  /\ call = None
  /\ ret = None

ReadDomainRow ==
  /\ pc = "domains.csv"
  /\ nread < MaxDomainRows
  /\ \E row \in DomainRows : load_domain_row(row)
  /\ nread' = nread + 1
  /\ UNCHANGED << pc, failure, tables, stats, written, harness >>

EndDomains ==
  /\ pc = "domains.csv"
  /\ sort_seen
  /\ pc' = "inspect.csv"
  /\ UNCHANGED << failure, tables, stats, nread, written, harness >>

ReadInspectRow ==
  /\ pc = "inspect.csv"
  /\ \E row \in InspectRows : load_inspect_row(row)
  /\ UNCHANGED << pc, failure, tables, stats, nread, written, harness >>

EndInspect ==
  /\ pc = "inspect.csv"
  /\ pc' = "tls.csv"
  /\ UNCHANGED << failure, registry, tables, stats, nread, written, harness >>

ReadTlsRow ==
  /\ pc = "tls.csv"
  /\ \E row \in TlsRows : load_tls_row(row)
  /\ UNCHANGED << pc, failure, tables, stats, nread, written, harness >>

EndTls ==
  /\ pc = "tls.csv"
  /\ pc' = "analytics.csv"
  /\ UNCHANGED << failure, registry, tables, stats, nread, written, harness >>

ReadAnalyticsRow ==
  /\ pc = "analytics.csv"
  /\ \E row \in AnalyticsRows : load_analytics_row(row)
  /\ UNCHANGED << pc, failure, tables, stats, nread, written, harness >>

EndAnalytics ==
  /\ pc = "analytics.csv"
  /\ pc' = "process_domains"
  /\ UNCHANGED << failure, registry, tables, stats, nread, written, harness >>

Next ==
  \/ ReadDomainRow \/ EndDomains
  \/ ReadInspectRow \/ EndInspect
  \/ ReadTlsRow \/ EndTls
  \/ ReadAnalyticsRow \/ EndAnalytics
  \/ process_domains \/ process_stats \/ save

Spec == Init /\ [][Next]_vars

(***************************************************************************)
(* SpecClassify: process_domains and process_stats on the registry that    *)
(* load_data leaves for one live or dead executive domain, over every      *)
(* inspect row and every TLS grade.                                        *)
(***************************************************************************)
InitClassify ==
  /\ pc = "process_domains"
  /\ failure = None
  /\ \E inspect \in AllInspectRows({"A.GOV"}),
        tls \in {None} \cup {TlsRow("A.GOV", g) : g \in Grades} :
       domain_data =
         ("a.gov" :>
            ( (IF tls = None THEN EmptyDict ELSE ("tls" :> tls))
              @@ ("inspect" :> inspect)
              @@ ("analytics" :> AnalyticsRow("A.GOV", "True"))
              @@ [branch |-> "executive", agency |-> "Department of Energy"] ))
  /\ agency_data = ("Department of Energy" :> <<"a.gov">>)
  /\ domains = <<"a.gov">>
  /\ agencies = <<"Department of Energy">>
  /\ https_domains = <<>>
  /\ analytics_domains = <<>>
  /\ https_agencies = <<>>
  /\ analytics_agencies = <<>>
  /\ https_stats = <<>>
  /\ analytics_stats = <<>>
  /\ nread = 1
  /\ files = None
  /\ pos = 0
  /\ written = <<>>
  /\ call = None
  /\ ret = None

NextClassify == process_domains \/ process_stats \/ save

SpecClassify == InitClassify /\ [][NextClassify]_vars

(***************************************************************************)
(* SpecPercent: percent on every count and total up to MaxTotal.           *)
(***************************************************************************)
MaxTotal == 200

InitPercent ==
  /\ pc = "percent"
  /\ failure = None
  /\ domain_data = EmptyDict
  /\ agency_data = EmptyDict
  /\ domains = <<>>
  /\ agencies = <<>>
  /\ https_domains = <<>>
  /\ analytics_domains = <<>>
  /\ https_agencies = <<>>
  /\ analytics_agencies = <<>>
  /\ https_stats = <<>>
  /\ analytics_stats = <<>>
  /\ nread = 0
  /\ files = None
  /\ pos = 0
  /\ written = <<>>
  /\ \E denom \in 0..MaxTotal : \E num \in 0..denom :
       call = [num |-> num, denom |-> denom]
  /\ ret = None

CallPercent ==
  /\ pc = "percent"
  /\ ret = None
  /\ ret' = percent(call.num, call.denom)
  /\ UNCHANGED << pc, failure, registry, tables, stats, nread, files, pos,
                  written, call >>

SpecPercent == InitPercent /\ [][CallPercent]_vars

(***************************************************************************)
(* SpecRerun: run() called up to MaxRuns times in one interpreter, over    *)
(* input files that stay the same.                                         *)
(***************************************************************************)
MaxRuns == 2
MaxFileRows == 1

SeqsUpTo(S, n) == UNION {[1..k -> S] : k \in 0..n}

FileOrder == <<"domains.csv", "inspect.csv", "tls.csv", "analytics.csv">>

\* The step of run() after the file.
after(file) ==
  CASE file = "domains.csv"   -> "inspect.csv"
    [] file = "inspect.csv"   -> "tls.csv"
    [] file = "tls.csv"       -> "analytics.csv"
    [] file = "analytics.csv" -> "process_domains"

load_row(file, row) ==
  CASE file = "domains.csv"   -> load_domain_row(row)
    [] file = "inspect.csv"   -> load_inspect_row(row)
    [] file = "tls.csv"       -> load_tls_row(row)
    [] file = "analytics.csv" -> load_analytics_row(row)

end_of(file) ==
  IF file = "domains.csv" THEN sort_seen ELSE UNCHANGED registry

InitRerun ==
  /\ pc = "domains.csv"
  /\ failure = None
  /\ domain_data = EmptyDict
  /\ agency_data = EmptyDict
  /\ domains = <<>>
  /\ agencies = <<>>
  /\ https_domains = <<>>
  /\ analytics_domains = <<>>
  /\ https_agencies = <<>>
  /\ analytics_agencies = <<>>
  /\ https_stats = <<>>
  /\ analytics_stats = <<>>
  /\ nread = 0
  /\ \E d \in SeqsUpTo(DomainRows, MaxFileRows),
        i \in SeqsUpTo(InspectRows, MaxFileRows),
        s \in SeqsUpTo(TlsRows, MaxFileRows),
        a \in SeqsUpTo(AnalyticsRows, MaxFileRows) :
       files = ("domains.csv" :> d) @@ ("inspect.csv" :> i)
               @@ ("tls.csv" :> s) @@ ("analytics.csv" :> a)
  /\ pos = 0
  /\ written = <<>>
  /\ call = None
  /\ ret = None

ReplayRow ==
  /\ pc \in Range(FileOrder)
  /\ pos < Len(files[pc])
  /\ load_row(pc, files[pc][pos + 1])
  /\ pos' = pos + 1
  /\ nread' = IF pc = "domains.csv" THEN nread + 1 ELSE nread
  /\ UNCHANGED << pc, failure, tables, stats, files, written, call, ret >>

ReplayEnd ==
  /\ pc \in Range(FileOrder)
  /\ pos = Len(files[pc])
  /\ end_of(pc)
  /\ pc' = after(pc)
  /\ pos' = 0
  /\ UNCHANGED << failure, tables, stats, nread, files, written, call, ret >>

\* run() is called again; the module's globals are still there.
Rerun ==
  /\ pc = "done"
  /\ Len(written) < MaxRuns
  /\ pc' = "domains.csv"
  /\ nread' = 0
  /\ UNCHANGED << failure, registry, tables, stats, written, harness >>

NextRerun ==
  \/ ReplayRow \/ ReplayEnd
  \/ process_domains \/ process_stats \/ save
  \/ Rerun

SpecRerun == InitRerun /\ [][NextRerun]_vars

(***************************************************************************)
(* Properties                                                              *)
(***************************************************************************)

\* process_domains has returned or raised in this run.
ProcessDomainsRan == pc \in {"process_stats", "save", "done", "failed"}

\* process_domains returned without raising.
ProcessDomainsReturned ==
  \/ pc \in {"process_stats", "save", "done"}
  \/ pc = "failed" /\ failure.where = "process_stats"

\* process_stats has returned or raised.
ProcessStatsRan ==
  \/ pc \in {"save", "done"}
  \/ pc = "failed" /\ failure.where = "process_stats"

HasInspect(domain) == Get(domain_data[domain], "inspect") # None

\* The eligibility predicates, as the data model states them.
HttpsEligible(domain) ==
  HasInspect(domain) /\ domain_data[domain]["inspect"]["Live"] = "True"

AnalyticsEligible(domain) ==
  /\ HasInspect(domain)
  /\ Get(domain_data[domain], "analytics") # None
  /\ domain_data[domain]["inspect"]["Live"] = "True"
  /\ domain_data[domain]["inspect"]["Redirect"] = "False"
  /\ domain_data[domain]["branch"] = "executive"

\* The inspect fields put the presence score above 0.
PresencePositive(inspect) ==
  /\ inspect["Downgrades HTTPS"] # "True"
  /\ inspect["Valid HTTPS"] = "True" \/ inspect["HTTPS Bad Chain"] = "True"

InspectOf(row) == domain_data[row["Domain"]]["inspect"]

RowsFor(rows, domain) == {i \in DOMAIN rows : rows[i]["Domain"] = domain}

RowsOf(rows, agency) == {i \in DOMAIN rows : rows[i]["Agency"] = agency}

\* C1: every HTTPS/TLS row produced has presence in {-1,0,1,2}, enforcement
\* in {0,1,2,3} and 0 when presence <= 0, HSTS in {-1,0,1,2,3} and -1 when
\* presence <= 0, grade in {-1,0,...,6}; a downgrading domain has presence 0
\* and enforcement 0.
C1_ScoreRanges ==
  \A i \in DOMAIN https_domains :
    LET row == https_domains[i]
    IN  /\ row[LABELS.https] \in {-1, 0, 1, 2}
        /\ row[LABELS.https_forced] \in {0, 1, 2, 3}
        /\ row[LABELS.https] <= 0 => row[LABELS.https_forced] = 0
        /\ row[LABELS.hsts] \in {-1, 0, 1, 2, 3}
        /\ row[LABELS.https] <= 0 => row[LABELS.hsts] = -1
        /\ row[LABELS.grade] \in -1..6
        /\ InspectOf(row)["Downgrades HTTPS"] = "True" =>
             row[LABELS.https] = 0 /\ row[LABELS.https_forced] = 0

\* A row of a downgrading domain that strictly forces HTTPS and has a TLS scan.
C1_Witness ==
  \E i \in DOMAIN https_domains :
    /\ InspectOf(https_domains[i])["Downgrades HTTPS"] = "True"
    /\ InspectOf(https_domains[i])["Strictly Forces HTTPS"] = "True"
    /\ InspectOf(https_domains[i])["Defaults to HTTPS"] = "True"
    /\ Get(domain_data[https_domains[i]["Domain"]], "tls") # None
    /\ https_domains[i][LABELS.https] = 0
    /\ https_domains[i][LABELS.grade] = -1

\* C2: for a row with presence > 0 the HSTS score is the first match of:
\* HSTS False -> 0; Preload Ready True -> 3 whatever the max-age; max-age
\* below 10886400 -> 0; All Subdomains True -> 2; else 1.  HSTS True, no
\* preload, max-age 10000000 gives 0; preload with an empty max-age gives 3.
C2_HstsLadder ==
  \A i \in DOMAIN https_domains :
    LET row     == https_domains[i]
        inspect == InspectOf(row)
        age     == row[LABELS.hsts_age]
    IN  row[LABELS.https] > 0 =>
          /\ row[LABELS.hsts] =
               IF inspect["HSTS"] = "False" THEN 0
               ELSE IF inspect["HSTS Preload Ready"] = "True" THEN 3
               ELSE IF age # None /\ age.some < 10886400 THEN 0
               ELSE IF inspect["HSTS All Subdomains"] = "True" THEN 2
               ELSE 1
          /\ ( /\ inspect["HSTS"] = "True"
               /\ inspect["HSTS Preload Ready"] = "False"
               /\ age = Some(10000000) ) => row[LABELS.hsts] = 0
          /\ ( /\ inspect["HSTS"] = "True"
               /\ inspect["HSTS Preload Ready"] = "True"
               /\ inspect["HSTS Max Age"] = <<>> ) =>
               row[LABELS.hsts] = 3 /\ age = None

\* A preload-ready row with an empty max-age and the score 3.
C2_Witness ==
  \E i \in DOMAIN https_domains :
    /\ https_domains[i][LABELS.https] > 0
    /\ InspectOf(https_domains[i])["HSTS"] = "True"
    /\ InspectOf(https_domains[i])["HSTS Preload Ready"] = "True"
    /\ InspectOf(https_domains[i])["HSTS Max Age"] = <<>>
    /\ https_domains[i][LABELS.hsts] = 3

\* A TLS record whose Grade is none of the seven letters.
UnrecognizedGrade(domain) ==
  /\ Get(domain_data[domain], "tls") # None
  /\ domain_data[domain]["tls"]["Grade"] \notin {"F", "T", "C", "B", "A-", "A", "A+"}

\* C3 as stated: a classified domain whose TLS Grade is unrecognized fails
\* the run and gets no HTTPS/TLS row, for every presence score.
C3_Original ==
  ProcessDomainsRan =>
    \A d \in DOMAIN domain_data :
      HttpsEligible(d) /\ UnrecognizedGrade(d) =>
        /\ pc = "failed" /\ failure.where = "process_domains"
        /\ RowsFor(https_domains, d) = {}

\* C3: a classified domain with presence > 0 whose TLS Grade is
\* unrecognized fails the run in process_domains and gets no HTTPS/TLS row.
C3_UnrecognizedGradeFails ==
  ProcessDomainsRan =>
    \A d \in DOMAIN domain_data :
      ( /\ HttpsEligible(d)
        /\ UnrecognizedGrade(d)
        /\ PresencePositive(domain_data[d]["inspect"]) ) =>
        /\ pc = "failed" /\ failure.where = "process_domains"
        /\ RowsFor(https_domains, d) = {}

\* The KeyError of the grade lookup ended the run.
C3_Witness ==
  /\ pc = "failed"
  /\ failure = [where |-> "process_domains", exc |-> "KeyError"]
  /\ \E d \in DOMAIN domain_data :
       /\ HttpsEligible(d) /\ UnrecognizedGrade(d)
       /\ PresencePositive(domain_data[d]["inspect"])

\* C4: once process_domains has returned, an agency has a row in the HTTPS
\* rollup iff an entry of its domain list is HTTPS-eligible, and a row in
\* the analytics rollup iff an entry is analytics-eligible; no row counts 0
\* domains and process_domains never divides by zero.
C4_RollupIffEligible ==
  /\ failure # None =>
       ~(failure.where = "process_domains" /\ failure.exc = "ZeroDivisionError")
  /\ ProcessDomainsReturned =>
       /\ \A a \in DOMAIN agency_data :
            /\ RowsOf(https_agencies, a) # {} <=>
                 \E j \in DOMAIN agency_data[a] : HttpsEligible(agency_data[a][j])
            /\ RowsOf(analytics_agencies, a) # {} <=>
                 \E j \in DOMAIN agency_data[a] :
                    AnalyticsEligible(agency_data[a][j])
       /\ \A i \in DOMAIN https_agencies :
            https_agencies[i]["Number of Domains"] > 0
       /\ \A i \in DOMAIN analytics_agencies :
            analytics_agencies[i]["Number of Domains"] > 0

\* One agency is in the HTTPS rollup and another, with no eligible entry,
\* is in neither rollup.
C4_Witness ==
  /\ ProcessDomainsReturned
  /\ \E a, b \in DOMAIN agency_data :
       /\ RowsOf(https_agencies, a) # {}
       /\ RowsOf(https_agencies, b) = {}
       /\ RowsOf(analytics_agencies, b) = {}
       /\ agency_data[b] # <<>>

\* count / total * 100 rounded half-up.
HalfUp(count, total) == (200 * count + total) \div (2 * total)

\* C5 as stated: every percentage is count/total*100 rounded half-up.
C5_Original ==
  (ret # None /\ ~IsRaise(ret)) => ret.ok = HalfUp(call.num, call.denom)

\* C5: every percentage is a whole percent nearest to count/total*100, for
\* 0 <= count <= total and total > 0; an exact half is not rounded upward
\* (1/8 gives 12, 1/200 gives 0, 23/40 gives 57); 1/3 gives 33, 2/3 gives 67.
C5_NearestPercent ==
  (ret # None /\ call.denom > 0) =>
    /\ ~IsRaise(ret)
    /\ LET d == 100 * call.num - ret.ok * call.denom
       IN  2 * d <= call.denom /\ -2 * d <= call.denom
    /\ call = [num |-> 1, denom |-> 8] => ret.ok = 12
    /\ call = [num |-> 1, denom |-> 200] => ret.ok = 0
    /\ call = [num |-> 23, denom |-> 40] => ret.ok = 57
    /\ call = [num |-> 1, denom |-> 3] => ret.ok = 33
    /\ call = [num |-> 2, denom |-> 3] => ret.ok = 67

\* percent(1, 8) has returned 12.
C5_Witness == call = [num |-> 1, denom |-> 8] /\ ret = Ok(12)

\* The entries of an agency's domain list that have an inspect record.
Inspected(agency_domains) == SelectSeq(agency_domains, HasInspect)

\* C6: a registry domain without an inspect record has no row in the
\* per-domain HTTPS or analytics list, and every rollup row is the row its
\* agency gets from its domain list with those domains left out.
C6_NoInspectExcluded ==
  /\ \A d \in DOMAIN domain_data :
       ~HasInspect(d) =>
         /\ RowsFor(https_domains, d) = {}
         /\ RowsFor(analytics_domains, d) = {}
  /\ \A i \in DOMAIN https_agencies :
       LET a == https_agencies[i]["Agency"]
       IN  /\ https_agencies[i]["Number of Domains"] =
                Cardinality({j \in DOMAIN agency_data[a] :
                               HttpsEligible(agency_data[a][j])})
           /\ Ok(https_agencies[i]) =
                https_agency_row(a, https_tally(Inspected(agency_data[a])).ok)
  /\ \A i \in DOMAIN analytics_agencies :
       LET a == analytics_agencies[i]["Agency"]
       IN  Ok(analytics_agencies[i]) =
             analytics_agency_row(a, analytics_tally(Inspected(agency_data[a])))

\* An agency in the HTTPS rollup lists a domain that has a TLS record and
\* no inspect record.
C6_Witness ==
  /\ ProcessDomainsReturned
  /\ \E d \in DOMAIN domain_data : \E a \in DOMAIN agency_data :
       /\ ~HasInspect(d)
       /\ Get(domain_data[d], "tls") # None
       /\ Cardinality({j \in DOMAIN agency_data[a] : agency_data[a][j] = d}) >= 1
       /\ RowsOf(https_agencies, a) # {}

\* C7 as stated: an HTTPS-eligible domain whose HSTS is "True" and whose
\* HSTS Max Age is empty or no integer gets its row, with the max-age None.
C7_Original ==
  ProcessDomainsRan =>
    \A d \in DOMAIN domain_data :
      ( /\ HttpsEligible(d)
        /\ ~UnrecognizedGrade(d)
        /\ domain_data[d]["inspect"]["HSTS"] = "True"
        /\ \/ domain_data[d]["inspect"]["HSTS Max Age"] = <<>>
           \/ IsRaise(int(domain_data[d]["inspect"]["HSTS Max Age"])) ) =>
        \E i \in RowsFor(https_domains, d) :
           https_domains[i][LABELS.hsts_age] = None

\* C8 as stated: process_stats on an empty row list fails through a guard,
\* without dividing by zero, and leaves neither stats table written.
C8_Original ==
  (ProcessStatsRan /\ (https_domains = <<>> \/ analytics_domains = <<>>)) =>
    /\ pc = "failed"
    /\ failure.exc # "ZeroDivisionError"
    /\ https_stats = <<>>
    /\ analytics_stats = <<>>

\* C9 as stated: a domain with a tls or an analytics sub-record has an
\* inspect sub-record.
C9_Original ==
  \A d \in DOMAIN domain_data :
    (Get(domain_data[d], "tls") # None \/ Get(domain_data[d], "analytics") # None)
      => HasInspect(d)

\* C9: a domain with an analytics sub-record has an inspect sub-record.
C9_AnalyticsNeedsInspect ==
  \A d \in DOMAIN domain_data :
    Get(domain_data[d], "analytics") # None => HasInspect(d)

\* analytics.csv has been read: one domain carries analytics, another has
\* a TLS record, no inspect record and no analytics.
C9_Witness ==
  /\ pc = "process_domains"
  /\ \E d, e \in DOMAIN domain_data :
       /\ Get(domain_data[d], "analytics") # None
       /\ ~HasInspect(e)
       /\ Get(domain_data[e], "tls") # None
       /\ Get(domain_data[e], "analytics") = None

\* C10 as stated: a second run over the same input files writes the
\* tables the first run wrote.
C10_Original == Len(written) >= 2 => written[2] = written[1]

====
